---- MODULE Spec2Model ----
(***************************************************************************)
(* Model of src/app.py: the load / normalise / aggregate / select / topic  *)
(* summary / word-cloud / layout script of the CDMX review dashboard.      *)
(*                                                                         *)
(* A string is a sequence of one-character strings, so that trimming,      *)
(* prefix removal and ordering are computed and not assumed.  A table is a *)
(* sequence of row blocks [cells, n]: `cells' maps each column name to the *)
(* cell value and `n' is the number of consecutive identical rows.         *)
(***************************************************************************)
EXTENDS Integers, Sequences, FiniteSets, TLC

VARIABLES pc, steps, err, columns, df, df_copy, agg, top, bottom, focus,
          treemap_df, wordcloud_src, layout

vars == <<pc, steps, err, columns, df, df_copy, agg, top, bottom, focus,
          treemap_df, wordcloud_src, layout>>

(* ----------------------------- bounds ---------------------------------- *)

\* Maximum number of free single rows appended to the fixed corpus rows.
MaxRows == 2

(* ------------------------- program constants --------------------------- *)

N == 12
MIN_TOPIC_MENTIONS == 40
HeadSample == 200

(* ------------------------------ strings -------------------------------- *)

Range(s) == {s[i] : i \in 1..Len(s)}

Min(a, b) == IF a < b THEN a ELSE b

\* The characters that occur, in code-point order (Python orders str so).
Alphabet ==
    <<" ", "-", ".", "0", "1", "2", "3", "4", "5", "6", "7", "8", "9",
      "E", "G", "N", "O", "P", "S", "U", "_",
      "a", "b", "c", "d", "e", "f", "g", "h", "i", "j", "k", "l", "m", "n",
      "o", "p", "q", "r", "s", "t", "u", "v", "w", "x", "y", "z", "ñ", "ó">>

Code(c) == CHOOSE i \in 1..Len(Alphabet) : Alphabet[i] = c

\* a < b for Python str: lexicographic by code point, a proper prefix first.
StrLess(a, b) ==
    \E i \in 1..(Min(Len(a), Len(b)) + 1) :
        /\ \A j \in 1..(i - 1) : a[j] = b[j]
        /\ \/ i > Len(a) /\ i <= Len(b)
           \/ i <= Len(a) /\ i <= Len(b) /\ Code(a[i]) < Code(b[i])

\* A missing cell (NaN / pd.NA); no string is equal to it.
NA == <<"<NA>">>

\* Series.astype(str): a missing value becomes the string "nan".
AsStr(v) == IF v = NA THEN <<"n", "a", "n">> ELSE v

IsSpace(c) == c = " "

RECURSIVE LStrip(_)
LStrip(s) == IF s # <<>> /\ IsSpace(Head(s)) THEN LStrip(Tail(s)) ELSE s

RECURSIVE RStrip(_)
RStrip(s) ==
    IF s # <<>> /\ IsSpace(s[Len(s)]) THEN RStrip(SubSeq(s, 1, Len(s) - 1)) ELSE s

\* str.strip()
Strip(s) == RStrip(LStrip(s))

LugarPrefix == <<"r", "e", "s", "e", "ñ", "a", "s", "_">>

\* .str.replace(r"^reseñas_", "", regex=True)
RemovePrefix(s) ==
    IF Len(s) >= Len(LugarPrefix) /\ SubSeq(s, 1, Len(LugarPrefix)) = LugarPrefix
    THEN SubSeq(s, Len(LugarPrefix) + 1, Len(s))
    ELSE s

\* .str.replace("_", " ")
ReplaceUnderscore(s) == [i \in 1..Len(s) |-> IF s[i] = "_" THEN " " ELSE s[i]]

\* The whole cleaning chain applied to one `lugar' cell.
CleanLugar(v) == Strip(ReplaceUnderscore(RemovePrefix(AsStr(v))))

\* The topic values that mean "no topic assigned".
TopicSentinels ==
    { <<"-", "1">>, <<"-", "1", ".", "0">>, <<>>, <<"N", "o", "n", "e">>,
      <<"n", "a", "n">> }

POS == <<"P", "O", "S">>
NEG == <<"N", "E", "G">>
NEU == <<"N", "E", "U">>

(* ------------------------------ tables --------------------------------- *)

RECURSIVE SumN(_)
\* len(rows): the number of rows of a table given as row blocks.
SumN(rows) ==
    IF rows = <<>> THEN 0
    ELSE IF Len(rows) = 1 THEN rows[1].n
    ELSE LET h == Len(rows) \div 2
         IN  SumN(SubSeq(rows, 1, h)) + SumN(SubSeq(rows, h + 1, Len(rows)))

SetCell(row, c, v) ==
    [cells |-> [x \in (DOMAIN row.cells) \cup {c} |-> IF x = c THEN v ELSE row.cells[x]],
     n |-> row.n]

\* rename_map, applied to one column name (unknown names are left alone).
RenameMap(c) ==
    CASE c = "Lugar" -> "lugar"
      [] c = "SentLabel" -> "sent_label"
      [] c = "SentScore" -> "sent_score"
      [] c = "Topic" -> "topic"
      [] c = "Review" -> "review_text"
      [] c = "review" -> "review_text"
      [] OTHER -> c

RenameColumns(cols) == [i \in 1..Len(cols) |-> RenameMap(cols[i])]

RenameRow(row, cols) ==
    [cells |-> [c \in {RenameMap(x) : x \in Range(cols)} |->
                   row.cells[CHOOSE x \in Range(cols) : RenameMap(x) = c]],
     n |-> row.n]

\* Variant: the sentiment-label column is not asked for.
MandatoryPresent_LugarOnly(cols) == "lugar" \in Range(cols)

\* The guard of the validation at the head of the script.
MandatoryPresent(cols) == "lugar" \in Range(cols) /\ "sent_label" \in Range(cols)

(* ------------------------------ inputs --------------------------------- *)

\* Column layouts of the CSV file.
FullLayout == <<"Lugar", "SentLabel", "Topic", "Review_Lematizada">>

ColumnLayouts ==
    { FullLayout,
      <<"Lugar", "SentLabel", "Review_Lematizada">>,
      <<"Lugar", "SentLabel", "Topic">>,
      <<"Lugar", "SentLabel", "Topic", "Review">>,
      <<"lugar", "sent_label", "topic", "Review_Lematizada">>,
      <<"SentLabel", "Topic", "Review_Lematizada">>,
      <<"Lugar", "Topic", "Review_Lematizada">> }

ReviewText == <<"b", "u", "e", "n", "o">>
ReviewFills == {ReviewText, <<" ">>, NA}

\* Which value of a row a column of the file carries.
CellOf(c, lugar, sent, topic, review) ==
    CASE c \in {"Lugar", "lugar"} -> lugar
      [] c \in {"SentLabel", "sent_label"} -> sent
      [] c \in {"Topic", "topic"} -> topic
      [] OTHER -> review

MkRow(cols, lugar, sent, topic, review, n) ==
    [cells |-> [c \in Range(cols) |-> CellOf(c, lugar, sent, topic, review)], n |-> n]

\* The corpus: 2N places "reseñas_a" .. "reseñas_x"; place i has i positive
\* reviews (place 2 has one, like place 1) out of MIN_TOPIC_MENTIONS, the
\* rest negative, but for the neutral reviews with topic "9" of places N and
\* N+1.
CorpusLetters ==
    <<"a", "b", "c", "d", "e", "f", "g", "h", "i", "j", "k", "l",
      "m", "n", "o", "p", "q", "r", "s", "t", "u", "v", "w", "x">>

CorpusPos(i) == IF i = 2 THEN 1 ELSE i

CorpusNine(i) ==
    IF i = N THEN MIN_TOPIC_MENTIONS \div 2
    ELSE IF i = N + 1 THEN (MIN_TOPIC_MENTIONS \div 2) - 1
    ELSE 0

CorpusPlace(cols, i, review) ==
    LET name == LugarPrefix \o <<CorpusLetters[i]>>
        rest == MIN_TOPIC_MENTIONS - CorpusPos(i) - CorpusNine(i)
    IN  <<MkRow(cols, name, POS, <<"1">>, review, CorpusPos(i)),
          MkRow(cols, name, NEG, <<"4", "2">>, review, rest)>>
        \o (IF CorpusNine(i) > 0
            THEN <<MkRow(cols, name, NEU, <<"9">>, review, CorpusNine(i))>>
            ELSE <<>>)

RECURSIVE Corpus(_, _, _)
Corpus(cols, k, review) ==
    IF k = 0 THEN <<>> ELSE Corpus(cols, k - 1, review) \o CorpusPlace(cols, k, review)

CorpusSizes == {0, N, 2 * N}

\* The free rows: one row each.
VarLugares == { <<"a", " ">>, LugarPrefix \o <<"z", "_", "z">> }
VarLabels == { POS, <<"p", "o", "s">>, NA }
VarTopics == { <<"9">>, <<" ", "-", "1">> }

VarRows(cols, review) ==
    { MkRow(cols, l, s, t, review, 1) : l \in VarLugares, s \in VarLabels, t \in VarTopics }

SeqsUpTo(S, m) == UNION { [1..k -> S] : k \in 0..m }

(* ------------------------------ actions -------------------------------- *)

Unset == <<"unset">>

Init ==
    /\ pc = "rename"
    /\ steps = <<>>
    /\ err = "none"
    /\ \E cols \in ColumnLayouts, k \in CorpusSizes, review \in ReviewFills :
         \E var \in SeqsUpTo(VarRows(cols, review), MaxRows) :
            /\ \/ cols = FullLayout /\ review = ReviewText
               \/ k = 0 /\ Len(var) < MaxRows
            /\ columns = cols
            /\ df = Corpus(cols, k, review) \o var
            /\ df_copy = df
    /\ agg = <<>>
    /\ top = <<>>
    /\ bottom = <<>>
    /\ focus = <<>>
    /\ treemap_df = Unset
    /\ wordcloud_src = "unset"
    /\ layout = Unset

\* df = df.rename(columns={k: v for k, v in rename_map.items() if k in df.columns})
Rename ==
    /\ pc = "rename"
    /\ columns' = RenameColumns(columns)
    /\ df' = [i \in 1..Len(df) |-> RenameRow(df[i], columns)]
    /\ pc' = "validate"
    /\ steps' = Append(steps, "rename")
    /\ UNCHANGED <<err, df_copy, agg, top, bottom, focus, treemap_df, wordcloud_src, layout>>

\* if "lugar" not in df.columns or "sent_label" not in df.columns: raise ValueError
ValidateFail ==
    /\ pc = "validate"
    /\ ~MandatoryPresent(columns)
    /\ pc' = "error"
    /\ err' = "ValueError"
    /\ steps' = Append(steps, "validate")
    /\ UNCHANGED <<columns, df, df_copy, agg, top, bottom, focus, treemap_df,
                   wordcloud_src, layout>>

ValidateOk ==
    /\ pc = "validate"
    /\ MandatoryPresent(columns)
    /\ pc' = "clean"
    /\ steps' = Append(steps, "validate")
    /\ UNCHANGED <<err, columns, df, df_copy, agg, top, bottom, focus, treemap_df,
                   wordcloud_src, layout>>

\* df["lugar"] = df["lugar"].astype(str).str.replace(...).str.replace(...).str.strip()
CleanLugarColumn ==
    /\ pc = "clean"
    /\ df' = [i \in 1..Len(df) |-> SetCell(df[i], "lugar", CleanLugar(df[i].cells["lugar"]))]
    /\ pc' = "topic"
    /\ steps' = Append(steps, "clean")
    /\ UNCHANGED <<err, columns, df_copy, agg, top, bottom, focus, treemap_df,
                   wordcloud_src, layout>>

\* df["topic"].astype(str).str.strip() of one row
StripTopic(row) == SetCell(row, "topic", Strip(AsStr(row.cells["topic"])))

IsSentinelRow(row) == row.cells["topic"] \in TopicSentinels

\* Variant: the column is trimmed and every row is kept.
DropSentinelRows_KeepAll(rows) == [i \in 1..Len(rows) |-> StripTopic(rows[i])]

\* The topic branch: trim the column and keep the rows that carry a topic.
DropSentinelRows(rows) ==
    SelectSeq([i \in 1..Len(rows) |-> StripTopic(rows[i])],
              LAMBDA r : ~IsSentinelRow(r))

NormalizeTopic ==
    /\ pc = "topic"
    /\ "topic" \in Range(columns)
    /\ df' = DropSentinelRows(df)
    /\ pc' = "review"
    /\ steps' = Append(steps, "topic")
    /\ UNCHANGED <<err, columns, df_copy, agg, top, bottom, focus, treemap_df,
                   wordcloud_src, layout>>

\* else: df["topic"] = pd.NA
FillTopic ==
    /\ pc = "topic"
    /\ "topic" \notin Range(columns)
    /\ df' = [i \in 1..Len(df) |-> SetCell(df[i], "topic", NA)]
    /\ columns' = Append(columns, "topic")
    /\ pc' = "review"
    /\ steps' = Append(steps, "topic")
    /\ UNCHANGED <<err, df_copy, agg, top, bottom, focus, treemap_df, wordcloud_src, layout>>

\* str.lower() of the column names that occur.
Lower(c) ==
    CASE c = "Review_Lematizada" -> "review_lematizada"
      [] c = "Review" -> "review"
      [] c = "Lugar" -> "lugar"
      [] c = "SentLabel" -> "sentlabel"
      [] c = "Topic" -> "topic"
      [] OTHER -> c

ReviewNames ==
    {"review", "review_text", "review_lematizada", "review_lemmatized", "texto",
     "comentario"}

RECURSIVE SampleLen(_, _, _)
\* Sum of the string lengths of the first `budget' non-missing cells of column c.
SampleLen(rows, c, budget) ==
    IF rows = <<>> \/ budget = 0 THEN 0
    ELSE LET v == Head(rows).cells[c]
             k == IF v = NA THEN 0 ELSE Min(Head(rows).n, budget)
         IN  k * Len(v) + SampleLen(Tail(rows), c, budget - k)

\* Columns of object / string dtype: the two the script has written strings
\* (or pd.NA) into, and any column with a string in it.
IsTextColumn(rows, c) ==
    c \in {"lugar", "topic"} \/ \E i \in 1..Len(rows) : rows[i].cells[c] # NA

\* score = avg_len * (len(sample) / max(1, len(df))) = SampleLen / max(1, len(df)):
\* all scores share the denominator, so they are compared by SampleLen.
ColumnScore(rows, c) == SampleLen(rows, c, HeadSample)

RECURSIVE BestTextColumn(_, _, _, _)
\* The loop over text_cols with the running (best, best_score).
BestTextColumn(rows, cols, best, best_score) ==
    IF cols = <<>> THEN best
    ELSE LET c == Head(cols)
             score == ColumnScore(rows, c)
         IN  IF IsTextColumn(rows, c) /\ score > best_score
             THEN BestTextColumn(rows, Tail(cols), c, score)
             ELSE BestTextColumn(rows, Tail(cols), best, best_score)

None == "None"

detect_review_column(rows, cols) ==
    LET candidates == SelectSeq(cols, LAMBDA c : Lower(c) \in ReviewNames)
    IN  IF candidates # <<>> THEN candidates[1]
        ELSE BestTextColumn(rows, cols, None, 0)

\* df["review_text"] = df.get("review_text", df.get(review_col)) / df.get("review_text", "")
DetectReview ==
    /\ pc = "review"
    /\ LET review_col == detect_review_column(df, columns)
           val(row) == IF "review_text" \in Range(columns) THEN row.cells["review_text"]
                       ELSE IF review_col # None THEN row.cells[review_col]
                       ELSE <<>>
       IN  /\ df' = [i \in 1..Len(df) |-> SetCell(df[i], "review_text", val(df[i]))]
           /\ columns' = IF "review_text" \in Range(columns) THEN columns
                         ELSE Append(columns, "review_text")
    /\ pc' = "aggregate"
    /\ steps' = Append(steps, "review")
    /\ UNCHANGED <<err, df_copy, agg, top, bottom, focus, treemap_df, wordcloud_src, layout>>

(* ---------------------------- aggregation ------------------------------ *)

\* The group keys of groupby("lugar"): the distinct values, in sorted order.
GroupKeys(rows) ==
    LET ks == [i \in 1..Len(rows) |-> rows[i].cells["lugar"]] \o <<>>
        S == Range(ks)
        rank == [i \in 1..Len(ks) |-> Cardinality({y \in S : StrLess(y, ks[i])})] \o <<>>
    IN  [p \in 1..Cardinality(S) |-> ks[CHOOSE i \in 1..Len(ks) : rank[i] = p - 1]]

GroupRows(rows, g) == SelectSeq(rows, LAMBDA r : r.cells["lugar"] = g)

\* ("sent_label", "count"): the number of non-missing labels of the group.
CountLabels(rows) == SumN(SelectSeq(rows, LAMBDA r : r.cells["sent_label"] # NA))

\* (x.astype(str) == label).sum()
CountLabel(rows, label) ==
    SumN(SelectSeq(rows, LAMBDA r : AsStr(r.cells["sent_label"]) = label))

\* pos / mentions as an exact fraction; a zero denominator is the float NaN.
Ratio(p, m) == [num |-> p, den |-> m]

IsNaN(r) == r.den = 0

\* Float comparisons: every comparison with NaN is false.
RatioLess(a, b) == ~IsNaN(a) /\ ~IsNaN(b) /\ a.num * b.den < b.num * a.den

RatioEq(a, b) == ~IsNaN(a) /\ ~IsNaN(b) /\ a.num * b.den = b.num * a.den

AggRow(rows, g) ==
    LET grp == GroupRows(rows, g)
        m == CountLabels(grp)
        p == CountLabel(grp, POS)
    IN  [lugar |-> g, mentions |-> m, pos |-> p, neg |-> CountLabel(grp, NEG),
         neu |-> CountLabel(grp, NEU), pos_ratio |-> Ratio(p, m)]

GroupAgg(rows) ==
    LET keys == GroupKeys(rows) IN [i \in 1..Len(keys) |-> AggRow(rows, keys[i])]

\* a goes strictly before b under ["pos_ratio", "mentions"] descending, NaN last.
SortsBefore(a, b) ==
    IF IsNaN(a.pos_ratio)
    THEN IsNaN(b.pos_ratio) /\ a.mentions > b.mentions
    ELSE \/ IsNaN(b.pos_ratio)
         \/ RatioLess(b.pos_ratio, a.pos_ratio)
         \/ RatioEq(a.pos_ratio, b.pos_ratio) /\ a.mentions > b.mentions

\* sort_values on two keys is a stable sort: ties keep the group order.
SortAgg(s) ==
    LET ahead(i, j) == SortsBefore(s[i], s[j]) \/ (~SortsBefore(s[j], s[i]) /\ i < j)
        place == [i \in 1..Len(s) |->
                    1 + Cardinality({j \in 1..Len(s) : j # i /\ ahead(j, i)})] \o <<>>
    IN  [p \in 1..Len(s) |-> s[CHOOSE i \in 1..Len(s) : place[i] = p]]

Aggregate ==
    /\ pc = "aggregate"
    /\ agg' = SortAgg(GroupAgg(df))
    /\ pc' = "select"
    /\ steps' = Append(steps, "aggregate")
    /\ UNCHANGED <<err, columns, df, df_copy, top, bottom, focus, treemap_df,
                   wordcloud_src, layout>>

(* ----------------------------- selection ------------------------------- *)

\* Variant: one row too many.
HeadRows_OneMore(s, n) == SubSeq(s, 1, Min(n + 1, Len(s)))

\* DataFrame.head(n)
HeadRows(s, n) == SubSeq(s, 1, Min(n, Len(s)))

Lugares(s) == {s[i].lugar : i \in 1..Len(s)}

\* Variant: the top rows are not taken out.
Resto_All(a, t) == a

\* resto = agg[~agg["lugar"].isin(top["lugar"])]
Resto(a, t) == SelectSeq(a, LAMBDA r : r.lugar \notin Lugares(t))

\* The rows in ascending pos_ratio, equal ratios in their given order.
AscSorted(s) ==
    LET ahead(i, j) == \/ RatioLess(s[i].pos_ratio, s[j].pos_ratio)
                       \/ RatioEq(s[i].pos_ratio, s[j].pos_ratio) /\ i < j
        place == [i \in 1..Len(s) |->
                    1 + Cardinality({j \in 1..Len(s) : j # i /\ ahead(j, i)})] \o <<>>
    IN  [p \in 1..Len(s) |-> s[CHOOSE i \in 1..Len(s) : place[i] = p]] \o <<>>

RemoveAt(s, m) == SubSeq(s, 1, m - 1) \o SubSeq(s, m + 1, Len(s))

RECURSIVE TieOrders(_)
\* Every order of an ascending sequence that permutes rows of equal ratio only.
TieOrders(s) ==
    IF s = <<>> THEN {<<>>}
    ELSE UNION { { <<s[m]>> \o t : t \in TieOrders(RemoveAt(s, m)) } :
                 m \in {i \in 1..Len(s) : RatioEq(s[i].pos_ratio, s[1].pos_ratio)} }

\* sort_values("pos_ratio"): ascending, the NaN rows last in their given
\* order; the default sort is not stable, so equal ratios come in any order.
SortByRatio(s) ==
    LET nans == SelectSeq(s, LAMBDA r : IsNaN(r.pos_ratio))
        nums == SelectSeq(s, LAMBDA r : ~IsNaN(r.pos_ratio))
    IN  { o \o nans : o \in TieOrders(AscSorted(nums)) }

Select ==
    /\ pc = "select"
    /\ top' = HeadRows(agg, N)
    /\ \E sorted \in SortByRatio(Resto(agg, top')) :
          bottom' = HeadRows(sorted, N)
    /\ focus' = top' \o bottom'
    /\ pc' = "treemap"
    /\ steps' = Append(steps, "select")
    /\ UNCHANGED <<err, columns, df, df_copy, agg, treemap_df, wordcloud_src, layout>>

(* --------------------------- topic summary ----------------------------- *)

\* df["topic"].notna().any()
AnyTopic(rows) == \E i \in 1..Len(rows) : rows[i].cells["topic"] # NA

\* The keys of topic_descriptions: "0" .. "41".
Digits == <<"0", "1", "2", "3", "4", "5", "6", "7", "8", "9">>

TopicIds ==
    {<<Digits[i]>> : i \in 1..10}
    \cup {<<Digits[i], Digits[j]>> : i \in 2..4, j \in 1..10}
    \cup {<<"4", "0">>, <<"4", "1">>}

\* topic_descriptions.get(tid, topic_descriptions.get(f"neg_{tid}", ""))
Description(tid) == IF tid \in TopicIds THEN <<"d", "e", "s", "c", " ">> \o tid ELSE <<>>

\* short_label: the label when the topic has a description, else Python None.
short_label(tid) ==
    IF tid \in TopicIds THEN <<"T", "ó", "p", "i", "c", "o", " ">> \o tid ELSE <<"None">>

\* The group keys of groupby("topic"): the distinct non-missing values, sorted.
TopicKeys(rows) ==
    LET ks == SelectSeq([i \in 1..Len(rows) |-> rows[i].cells["topic"]], LAMBDA t : t # NA)
        S == Range(ks)
        rank == [i \in 1..Len(ks) |-> Cardinality({y \in S : StrLess(y, ks[i])})] \o <<>>
    IN  [p \in 1..Cardinality(S) |-> ks[CHOOSE i \in 1..Len(ks) : rank[i] = p - 1]]

\* tmp = df[df["lugar"].isin(focus["lugar"])]
FocusRows(rows, f) == SelectSeq(rows, LAMBDA r : r.cells["lugar"] \in Lugares(f))

\* tmp.groupby("topic").size().reset_index(name="mentions")
TopicSizes(tmp) ==
    LET keys == TopicKeys(tmp)
    IN  [i \in 1..Len(keys) |->
            [topic |-> keys[i],
             mentions |-> SumN(SelectSeq(tmp, LAMBDA r : r.cells["topic"] = keys[i]))]]

\* Variant: a topic exactly at the minimum is dropped.
KeepTopic_Above(t) == t.mentions > MIN_TOPIC_MENTIONS

\* treemap_df[treemap_df["mentions"] >= MIN_TOPIC_MENTIONS]
KeepTopic(t) == t.mentions >= MIN_TOPIC_MENTIONS

map_topic_row(row) ==
    LET tid == Strip(AsStr(row.topic))
    IN  [topic_id |-> tid, label |-> short_label(tid), description |-> Description(tid),
         mentions |-> row.mentions]

TreemapDf(rows, f) ==
    IF AnyTopic(rows)
    THEN LET kept == SelectSeq(TopicSizes(FocusRows(rows, f)), KeepTopic)
         IN  [i \in 1..Len(kept) |-> map_topic_row(kept[i])]
    ELSE <<>>

Treemap ==
    /\ pc = "treemap"
    /\ treemap_df' = TreemapDf(df, focus)
    /\ pc' = "wordcloud"
    /\ steps' = Append(steps, "treemap")
    /\ UNCHANGED <<err, columns, df, df_copy, agg, top, bottom, focus, wordcloud_src, layout>>

(* ----------------------------- word cloud ------------------------------ *)

\* " ".join(series) is blank: every string of the series is blank.
Blank(texts) == \A i \in 1..Len(texts) : Strip(texts[i]) = <<>>

\* make_wordcloud_base64: None when neither the reviews nor the topics give text.
make_wordcloud_base64(text_series, rows) ==
    LET topics == SelectSeq([i \in 1..Len(rows) |-> rows[i].cells["topic"]],
                            LAMBDA t : t # NA)
        text == IF Blank(text_series) /\ AnyTopic(rows) THEN topics ELSE text_series
    IN  IF Blank(text) THEN None ELSE "data:image/png;base64"

\* df["Review_Lematizada"].fillna("").astype(str)
ReviewSeries(rows) ==
    [i \in 1..Len(rows) |->
        LET v == rows[i].cells["Review_Lematizada"] IN IF v = NA THEN <<>> ELSE v]

\* df["Review_Lematizada"] on a table without that column
WordcloudKeyError ==
    /\ pc = "wordcloud"
    /\ "Review_Lematizada" \notin Range(columns)
    /\ pc' = "error"
    /\ err' = "KeyError"
    /\ steps' = Append(steps, "wordcloud")
    /\ UNCHANGED <<columns, df, df_copy, agg, top, bottom, focus, treemap_df,
                   wordcloud_src, layout>>

Wordcloud ==
    /\ pc = "wordcloud"
    /\ "Review_Lematizada" \in Range(columns)
    /\ wordcloud_src' = make_wordcloud_base64(ReviewSeries(df), df)
    /\ pc' = "layout"
    /\ steps' = Append(steps, "wordcloud")
    /\ UNCHANGED <<err, columns, df, df_copy, agg, top, bottom, focus, treemap_df, layout>>

(* ------------------------------- layout -------------------------------- *)

\* The figures and cards of the page, as far as they depend on the data.
BuildLayout ==
    /\ pc = "layout"
    /\ layout' = [total_reviews |-> SumN(df_copy),
                  focus_places |-> Len(focus),
                  fig_treemap |-> IF treemap_df # <<>> THEN "treemap" ELSE "placeholder",
                  wordcloud |-> wordcloud_src]
    /\ pc' = "built"
    /\ steps' = Append(steps, "layout")
    /\ UNCHANGED <<err, columns, df, df_copy, agg, top, bottom, focus, treemap_df,
                   wordcloud_src>>

Next ==
    \/ Rename
    \/ ValidateFail
    \/ ValidateOk
    \/ CleanLugarColumn
    \/ NormalizeTopic
    \/ FillTopic
    \/ DetectReview
    \/ Aggregate
    \/ Select
    \/ Treemap
    \/ WordcloudKeyError
    \/ Wordcloud
    \/ BuildLayout

Spec == Init /\ [][Next]_vars

(* ------------------------------ claims --------------------------------- *)

Did(step) == step \in Range(steps)

\* The cell of an input row in the column that the renaming maps to `role'.
RawCell(row, role) == row.cells[CHOOSE c \in DOMAIN row.cells : RenameMap(c) = role]

HasRawColumn(row, role) == \E c \in DOMAIN row.cells : RenameMap(c) = role

Recognized == {POS, NEG, NEU}

AggOf(l) == agg[CHOOSE i \in 1..Len(agg) : agg[i].lugar = l]

AggLugares == {agg[i].lugar : i \in 1..Len(agg)}

\* The rows of the normalised table at location l with label in `labels'.
DfRows(l, labels) ==
    SumN(SelectSeq(df, LAMBDA r :
        r.cells["lugar"] = l /\ r.cells["sent_label"] \in labels))

DfRowsAt(l) == SumN(SelectSeq(df, LAMBDA r : r.cells["lugar"] = l))

DfLugares == {df[i].cells["lugar"] : i \in 1..Len(df)}

\* The rows of the input table at (cleaned) location l with label in `labels'.
InputRows(l, labels) ==
    SumN(SelectSeq(df_copy, LAMBDA r :
        /\ CleanLugar(RawCell(r, "lugar")) = l
        /\ RawCell(r, "sent_label") \in labels))

InputRowsAt(l) ==
    SumN(SelectSeq(df_copy, LAMBDA r :
        CleanLugar(RawCell(r, "lugar")) = l))

\* The locations that have an input row with a sentinel topic.
SentinelLugares ==
    { CleanLugar(RawCell(df_copy[i], "lugar")) :
        i \in { j \in 1..Len(df_copy) :
                  /\ HasRawColumn(df_copy[j], "topic")
                  /\ Strip(AsStr(RawCell(df_copy[j], "topic"))) \in TopicSentinels } }

\* C1: a row with a sentinel topic is left out of the topic aggregate but is
\* still counted in the sentiment aggregate of its location: in its mention
\* count and, by its label, in pos / neg / neu.
C1_SentinelRowsCounted ==
    Did("aggregate") =>
        \A l \in SentinelLugares :
            /\ l \in AggLugares
            /\ AggOf(l).mentions = InputRowsAt(l)
            /\ AggOf(l).pos = InputRows(l, {POS})
            /\ AggOf(l).neg = InputRows(l, {NEG})
            /\ AggOf(l).neu = InputRows(l, {NEU})

InputHasTopic == df_copy # <<>> /\ HasRawColumn(df_copy[1], "topic")

TreemapTopics == {treemap_df[i].topic_id : i \in 1..Len(treemap_df)}

\* The input rows as (cleaned location, label, sentinel topic or not, n).
InputView ==
    [i \in 1..Len(df_copy) |->
        [lugar |-> CleanLugar(RawCell(df_copy[i], "lugar")),
         sent_label |-> RawCell(df_copy[i], "sent_label"),
         sentinel |-> Strip(AsStr(RawCell(df_copy[i], "topic"))) \in TopicSentinels,
         n |-> df_copy[i].n]] \o <<>>

\* C1 as amended: in a table with a topic column, a row with a sentinel topic
\* is left out of the topic aggregate and of the sentiment aggregate alike:
\* a location is aggregated when it has a row with a topic, its pos / neg /
\* neu count its rows with a topic only, its mention count is the number of
\* those that carry a label, and no topic summary row is a sentinel; only
\* the total of reviews still counts every row.
C1_SentinelRowsDropped ==
    (Did("aggregate") /\ InputHasTopic) =>
        LET kept == SelectSeq(InputView, LAMBDA v : ~v.sentinel)
        IN  /\ AggLugares = {kept[i].lugar : i \in 1..Len(kept)}
            /\ \A j \in 1..Len(agg) :
                  LET g == SelectSeq(kept, LAMBDA v : v.lugar = agg[j].lugar)
                  IN  /\ agg[j].mentions = SumN(SelectSeq(g, LAMBDA v : v.sent_label # NA))
                      /\ agg[j].pos = SumN(SelectSeq(g, LAMBDA v : v.sent_label = POS))
                      /\ agg[j].neg = SumN(SelectSeq(g, LAMBDA v : v.sent_label = NEG))
                      /\ agg[j].neu = SumN(SelectSeq(g, LAMBDA v : v.sent_label = NEU))
            /\ Did("treemap") => TreemapTopics \cap TopicSentinels = {}
            /\ Did("layout") => layout.total_reviews = SumN(InputView)

C1_Witness ==
    /\ Did("layout")
    /\ InputHasTopic
    /\ \E l \in SentinelLugares \cap AggLugares :
          /\ InputRows(l, {POS}) > AggOf(l).pos
          /\ InputRowsAt(l) > AggOf(l).mentions

\* C2: a table with the location and the sentiment-label column runs from
\* load to the built dashboard without an error, with or without a topic
\* column, a review-text column, or text for the topic / word-cloud figures.
C2_NoErrorWithMandatoryColumns ==
    ("lugar" \in Range(RenameColumns(columns))
        /\ "sent_label" \in Range(RenameColumns(columns)))
    => /\ err = "none"
       /\ pc # "error"

BothColumns == "lugar" \in Range(columns) /\ "sent_label" \in Range(columns)

\* C3: after the renaming, a missing location or sentiment-label column ends
\* the run in the validation failure before any cleaning, aggregation,
\* selection or layout step; with both present the failure never occurs.
C3_ValidationGate ==
    /\ (Did("validate") /\ ~BothColumns) =>
            /\ pc = "error" /\ err = "ValueError"
            /\ steps = <<"rename", "validate">>
            /\ agg = <<>> /\ focus = <<>> /\ layout = Unset
    /\ (Did("rename") /\ BothColumns) => err # "ValueError"
    /\ err = "ValueError" => Did("validate") /\ ~BothColumns

C3_Witness ==
    /\ pc = "error" /\ err = "ValueError"
    /\ "lugar" \in Range(columns)
    /\ df # <<>>

\* C4: for every location of the normalised table the mention count is the
\* number of its rows (at least 1), and pos / neg / neu are the numbers of
\* its rows labelled exactly POS / NEG / NEU, whatever the other labels are.
C4_CountsAreRowCounts ==
    Did("aggregate") =>
        /\ AggLugares = DfLugares
        /\ \A l \in AggLugares :
              /\ AggOf(l).mentions = DfRowsAt(l)
              /\ AggOf(l).mentions >= 1
              /\ AggOf(l).pos = DfRows(l, {POS})
              /\ AggOf(l).neg = DfRows(l, {NEG})
              /\ AggOf(l).neu = DfRows(l, {NEU})

\* C5: pos + neg + neu <= mentions for every location, with equality exactly
\* when every row of the location has one of the three recognised labels.
C5_SubCountsSum ==
    Did("aggregate") =>
        \A l \in AggLugares :
            LET a == AggOf(l)
            IN  /\ a.pos + a.neg + a.neu <= a.mentions
                /\ (a.pos + a.neg + a.neu = a.mentions)
                       <=> (DfRows(l, Recognized) = DfRowsAt(l))

\* C6: every location aggregate has a defined positive ratio in [0, 1]:
\* mentions >= 1 and 0 <= pos <= mentions.
C6_RatioDefined ==
    Did("aggregate") =>
        \A l \in AggLugares :
            LET a == AggOf(l)
            IN  /\ a.mentions >= 1
                /\ 0 <= a.pos /\ a.pos <= a.mentions
                /\ ~IsNaN(a.pos_ratio)
                /\ a.pos_ratio = [num |-> a.pos, den |-> a.mentions]

TopLugares == {top[i].lugar : i \in 1..Len(top)}

BottomLugares == {bottom[i].lugar : i \in 1..Len(bottom)}

FocusLugares == {focus[i].lugar : i \in 1..Len(focus)}

\* C7: the top set and the bottom set share no location, with 2N or more
\* distinct locations and with fewer.
C7_TopBottomDisjoint ==
    Did("select") => TopLugares \cap BottomLugares = {}

C7_Witness ==
    /\ Did("select")
    /\ Cardinality(DfLugares) >= 2 * N
    /\ Len(top) = N /\ Len(bottom) = N

Max(a, b) == IF a > b THEN a ELSE b

\* C8: with D distinct locations, top has min(N, D) entries, bottom has
\* min(N, max(0, D - N)) and the focus set min(2N, D); a short or empty
\* bottom set is no error.
C8_FocusSizes ==
    (pc = "treemap") =>
        LET D == Cardinality(DfLugares)
        IN  /\ Len(top) = Min(N, D)
            /\ Cardinality(TopLugares) = Min(N, D)
            /\ Len(bottom) = Min(N, Max(0, D - N))
            /\ Cardinality(BottomLugares) = Min(N, Max(0, D - N))
            /\ Len(focus) = Min(2 * N, D)
            /\ pc = "treemap" /\ err = "none"

C8_Witness ==
    /\ Did("select")
    /\ Cardinality(DfLugares) = N + 1
    /\ Len(top) = N /\ Len(bottom) = 1

DfTopics == {df[i].cells["topic"] : i \in 1..Len(df)} \ {NA}

\* The rows of the normalised table with topic t at a location of the focus set.
FocusCount(t) ==
    SumN(SelectSeq(df, LAMBDA r :
        r.cells["topic"] = t /\ r.cells["lugar"] \in FocusLugares))

TopicCount(t) == SumN(SelectSeq(df, LAMBDA r : r.cells["topic"] = t))

\* C9: the topic summary lists a topic exactly when the number of rows with
\* that topic at the locations of the focus set reaches the minimum, and
\* lists that number as its mention count.
C9_TopicThreshold ==
    Did("treemap") =>
        /\ TreemapTopics = {t \in DfTopics : FocusCount(t) >= MIN_TOPIC_MENTIONS}
        /\ Cardinality(TreemapTopics) = Len(treemap_df)
        /\ \A i \in 1..Len(treemap_df) :
              /\ treemap_df[i].mentions = FocusCount(treemap_df[i].topic_id)
              /\ treemap_df[i].mentions >= MIN_TOPIC_MENTIONS

C9_Witness ==
    /\ Did("treemap")
    /\ treemap_df # <<>>
    /\ \E t \in DfTopics :
          /\ TopicCount(t) >= MIN_TOPIC_MENTIONS
          /\ FocusCount(t) < MIN_TOPIC_MENTIONS
          /\ t \notin TreemapTopics

\* (pos_ratio, mentions) of a is greater than that of b.
PairGreater(a, b) ==
    \/ RatioLess(b.pos_ratio, a.pos_ratio)
    \/ RatioEq(a.pos_ratio, b.pos_ratio) /\ a.mentions > b.mentions

RatioAtLeast(a, b) == RatioLess(b, a) \/ RatioEq(a, b)

\* C10: top is the first N aggregates in (pos_ratio, mentions) descending
\* order, so no location outside it has a greater pair than one inside;
\* bottom is the N lowest pos_ratio among the others, ascending, so every
\* location left out of both has a pos_ratio at least that of each bottom
\* location; focus is top followed by bottom.
C10_SelectionOrder ==
    Did("select") =>
        /\ top = SubSeq(agg, 1, Len(top))
        /\ \A i \in 1..Len(agg) : \A j \in 1..Len(top) :
              agg[i].lugar \notin TopLugares => ~PairGreater(agg[i], top[j])
        /\ \A i, j \in 1..Len(top) : i < j => ~PairGreater(top[j], top[i])
        /\ BottomLugares \subseteq AggLugares \ TopLugares
        /\ \A i, j \in 1..Len(bottom) :
              i < j => ~RatioLess(bottom[j].pos_ratio, bottom[i].pos_ratio)
        /\ \A i \in 1..Len(agg) : \A j \in 1..Len(bottom) :
              agg[i].lugar \notin (TopLugares \cup BottomLugares)
                  => RatioAtLeast(agg[i].pos_ratio, bottom[j].pos_ratio)
        /\ focus = top \o bottom

====
